---- MODULE Spec2Model ----
(***************************************************************************)
(* A model of riana's ReadPercolator (src/riana/peptides.py): the record   *)
(* store, the master match list, the per-sample and per-fraction views and *)
(* the filtered fraction list with its soft-threshold and match-across-runs*)
(* rows.                                                                   *)
(*                                                                         *)
(* Data frames are sequences of rows (records).  A frame is the pair       *)
(* [cols, rows]: cols = FALSE is the column-less pd.DataFrame() of the     *)
(* constructor, on which every column access raises.                       *)
(*                                                                         *)
(* Representation of the columns:                                          *)
(*   concat   the sequence_charge key, an integer standing for the string  *)
(*            (the integer order is the string order groupby sorts by);    *)
(*   q        'percolator q-value' on an integer grid;                     *)
(*   unique   'protein id' holds no comma;                                 *)
(*   scan     MS2 scan number; a predicted scan is kept in quarters while  *)
(*            it is a float.                                               *)
(* The m/z and mass columns take no part in any selection and are left out.*)
(***************************************************************************)
EXTENDS Integers, Sequences, FiniteSets

VARIABLES
    files,                      \* the percolator tables on disk, per sample
    master_id_df,               \* self.master_id_df
    curr_sample_id_df,          \* self.curr_sample_id_df
    curr_frac_id_df,            \* self.curr_frac_id_df
    curr_frac_filtered_id_df,   \* self.curr_frac_filtered_id_df
    match_across_runs_master,   \* self.match_across_runs_master
    indices,                    \* self.indices
    pred_median,                \* pred_df.median(axis=1) of the last match across runs,
                                \* in quarter scans (a local of filter_current_fraction_psms)
    last                        \* the last call: its name, arguments and outcome

vars == <<files, master_id_df, curr_sample_id_df, curr_frac_id_df,
          curr_frac_filtered_id_df, match_across_runs_master, indices,
          pred_median, last>>

----------------------------------------------------------------------------
(* Bounds of the model *)

\* rows per percolator table in the resolver input family
MaxRows == 3
\* largest scan number in the input families
MaxScan == 2
\* largest q-value of the grid
MaxQ == 2
\* rows of the first table in the master-list input family
MaxMasterRows == 2

\* project.samples, in reading order
samples == <<"A", "B", "C">>

\* sample names a caller may pass: those of the project and one unknown
SampleArgs == {"A", "B", "C", "Z"}
\* fraction indices a caller may pass
IdxArgs == {0, 1}
\* peptide_q arguments, on the q grid
PeptideQArgs == {1, 2}
\* min_fraction arguments, in quarters (1 is the default 0.25)
MinFractionArgs == {1, 2, 4}

\* params.soft_threshold_q, on the q grid
soft_threshold_q == 2

----------------------------------------------------------------------------
(* Frames and their pandas operations *)

NoFrame == [cols |-> FALSE, rows |-> <<>>]

Frame(rows) == [cols |-> TRUE, rows |-> rows]

Range(s) == {s[i] : i \in DOMAIN s}

\* the column `col` of a frame's rows, as a set (list(set(df[col])))
Column(rows, col) == {rows[i][col] : i \in DOMAIN rows}

Perms == [n \in 0..(MaxRows + 2) |->
                   {p \in [1..n -> 1..n] : \A i, j \in 1..n : (i # j) => (p[i] # p[j])}]

\* df.sort_values(by): the default kind is quicksort, which is not stable, so
\* rows that tie on `by` may come out in any order.
sort_values(rows, by) ==
    LET n == Len(rows)
    IN  { [i \in 1..n |-> rows[p[i]]] :
            p \in {pp \in Perms[n] :
                     \A i \in 1..(n - 1) : rows[pp[i]][by] <= rows[pp[i + 1]][by]} }

RECURSIVE SortedSeqOfSet(_)
SortedSeqOfSet(S) ==
    IF S = {} THEN <<>>
    ELSE LET m == CHOOSE x \in S : \A y \in S : x <= y
         IN  <<m>> \o SortedSeqOfSet(S \ {m})

RECURSIVE SelectIdx(_, _, _)
SelectIdx(rows, keep, i) ==
    IF i > Len(rows) THEN <<>>
    ELSE IF i \in keep THEN <<rows[i]>> \o SelectIdx(rows, keep, i + 1)
         ELSE SelectIdx(rows, keep, i + 1)

\* df.drop_duplicates(subset=['concat']): the first row of each key is kept
drop_duplicates(rows) ==
    SelectIdx(rows,
              {i \in DOMAIN rows : \A j \in 1..(i - 1) : rows[j].concat # rows[i].concat},
              1)

\* df.query / boolean mask on one column
Where(rows, col, v) == SelectSeq(rows, LAMBDA r : r[col] = v)

filter_df_by_args(rows, peptide_q, unique_only) ==
    LET byQ == SelectSeq(rows, LAMBDA r : r.q < peptide_q)
    IN  IF unique_only THEN SelectSeq(byQ, LAMBDA r : r.unique) ELSE byQ

----------------------------------------------------------------------------
(* Input families: the tables read_all_project_psms finds on disk *)

FileRows(idxs, keys, scans, qs, uniques) ==
    [file_idx : idxs, concat : keys, scan : scans, q : qs, unique : uniques]

\* tables of at most n distinct rows of U, in any order
Tables(U, n) ==
    UNION { {t \in [1..k -> U] : \A i, j \in 1..k : (i # j) => (t[i] # t[j])} : k \in 0..n }

\* one sample with a table of several rows per key; the other tables are empty
ResolverProjects ==
    LET U == FileRows({0}, {1, 2}, 1..MaxScan, {0, 1}, {TRUE})
    IN  { [s \in Range(samples) |-> IF s = "A" THEN t ELSE <<>>] : t \in Tables(U, MaxRows) }

\* every sample holds each key at most once, in fraction 0, a key eluting at the
\* same scan in every sample; key 2 comes at any confidence, keys 1 and 3
\* confidently
PipelineProjects ==
    LET row(k, q) == [file_idx |-> 0, concat |-> k, scan |-> k, q |-> q, unique |-> TRUE]
        opt(rows) == {<<>>} \cup {<<r>> : r \in rows}
        T == {a \o b \o c : a \in opt({row(1, 0)}),
                            b \in opt({row(2, q) : q \in 0..MaxQ}),
                            c \in opt({row(3, 0)})}
    IN  [Range(samples) -> T]

\* a few tables over two keys and two fractions
SmallProjects ==
    LET row(k, f, q) == [file_idx |-> f, concat |-> k, scan |-> k, q |-> q, unique |-> TRUE]
        T == {<<>>, <<row(1, 0, 0)>>, <<row(1, 0, 0), row(2, 0, 0)>>,
              <<row(1, 0, 0), row(2, 0, 1)>>, <<row(1, 0, 0), row(2, 1, 0)>>}
    IN  {p \in [Range(samples) -> T] : p["C"] \in {<<>>, <<row(1, 0, 0)>>}}

\* rows of any confidence and uniqueness over two keys: up to MaxMasterRows in
\* the first table, up to one in each other
MasterProjects ==
    LET U == FileRows({0}, {1, 2}, {1}, {0, 1}, BOOLEAN)
    IN  {p \in [Range(samples) -> Tables(U, MaxMasterRows)] :
           \A s \in Range(samples) \ {"A"} : Len(p[s]) <= 1}

----------------------------------------------------------------------------
(* Construction *)

NoCall == [op |-> "__init__", args |-> <<>>, raised |-> "none"]

Call(op, args, raised) == [op |-> op, args |-> args, raised |-> raised]

InitObject ==
    /\ master_id_df = NoFrame
    /\ curr_sample_id_df = NoFrame
    /\ curr_frac_id_df = NoFrame
    /\ curr_frac_filtered_id_df = NoFrame
    /\ match_across_runs_master = NoFrame
    /\ indices = {}
    /\ pred_median = <<>>
    /\ last = NoCall

InitResolver ==
    /\ files \in ResolverProjects
    /\ InitObject

Init ==
    /\ files \in SmallProjects
    /\ InitObject

InitMaster ==
    /\ files \in MasterProjects
    /\ InitObject

InitPipeline ==
    /\ files \in PipelineProjects
    /\ InitObject

----------------------------------------------------------------------------
(* read_all_project_psms *)

RECURSIVE ReadTables(_)
ReadTables(i) ==
    IF i > Len(samples) THEN <<>>
    ELSE LET s == samples[i]
             id_df == [j \in DOMAIN files[s] |->
                         [sample |-> s,
                          file_idx |-> files[s][j].file_idx,
                          concat |-> files[s][j].concat,
                          scan |-> files[s][j].scan,
                          q |-> files[s][j].q,
                          unique |-> files[s][j].unique]]
         IN  id_df \o ReadTables(i + 1)

read_all_project_psms ==
    /\ master_id_df' = Frame(ReadTables(1))
    /\ last' = Call("read_all_project_psms", <<>>, "none")
    /\ UNCHANGED <<files, curr_sample_id_df, curr_frac_id_df, curr_frac_filtered_id_df,
                   match_across_runs_master, indices, pred_median>>

----------------------------------------------------------------------------
(* make_master_match_list *)

\* twice the median of a non-empty sequence of integers (the median itself may
\* end in .5)
Median2(vals) ==
    LET n == Len(vals)
        below(i) == Cardinality({j \in 1..n : vals[j] < vals[i] \/ (vals[j] = vals[i] /\ j < i)})
        at(k) == vals[CHOOSE i \in 1..n : below(i) = k - 1]
    IN  IF n % 2 = 1 THEN 2 * at((n + 1) \div 2)
        ELSE at(n \div 2) + at(n \div 2 + 1)

\* groupby(['concat']).agg({'sample': 'nunique', 'file_idx': 'median'}), sample
\* renamed num_samples.  pd.to_numeric(downcast='integer') changes the dtype and
\* no value: a median ending in .5 stays as it is.  file_idx2 is twice the median.
GroupByConcat(rows) ==
    LET keys == SortedSeqOfSet(Column(rows, "concat"))
    IN  [i \in DOMAIN keys |->
           LET grp == Where(rows, "concat", keys[i])
           IN  [concat |-> keys[i],
                num_samples |-> Cardinality(Column(grp, "sample")),
                file_idx2 |-> Median2([j \in DOMAIN grp |-> grp[j].file_idx])]]

\* variant: more than the quorum is asked for
QuorumFilterStrict(agg, min_fraction) ==
    SelectSeq(agg, LAMBDA x : x.num_samples * 4 > Len(samples) * min_fraction)

\* num_samples >= len(self.samples) * min_fraction, min_fraction in quarters
QuorumFilter(agg, min_fraction) ==
    SelectSeq(agg, LAMBDA x : x.num_samples * 4 >= Len(samples) * min_fraction)

make_master_match_list(peptide_q, unique_only, min_fraction) ==
    /\ IF master_id_df.rows = <<>>
       THEN /\ last' = Call("make_master_match_list",
                            <<peptide_q, unique_only, min_fraction>>, "Exception")
            /\ UNCHANGED match_across_runs_master
       ELSE /\ match_across_runs_master' =
                   Frame(QuorumFilter(
                           GroupByConcat(filter_df_by_args(master_id_df.rows,
                                                           peptide_q, unique_only)),
                           min_fraction))
            /\ last' = Call("make_master_match_list",
                            <<peptide_q, unique_only, min_fraction>>, "none")
    /\ UNCHANGED <<files, master_id_df, curr_sample_id_df, curr_frac_id_df,
                   curr_frac_filtered_id_df, indices, pred_median>>

----------------------------------------------------------------------------
(* get_current_sample_psms, get_current_sample_mzid_indices *)

get_current_sample_psms(current_sample) ==
    /\ IF ~master_id_df.cols
       THEN /\ last' = Call("get_current_sample_psms", <<current_sample>>, "KeyError")
            /\ UNCHANGED curr_sample_id_df
       ELSE IF current_sample \notin Column(master_id_df.rows, "sample")
       THEN /\ last' = Call("get_current_sample_psms", <<current_sample>>, "AssertionError")
            /\ UNCHANGED curr_sample_id_df
       ELSE /\ curr_sample_id_df' = Frame(Where(master_id_df.rows, "sample", current_sample))
            /\ last' = Call("get_current_sample_psms", <<current_sample>>, "none")
    /\ UNCHANGED <<files, master_id_df, curr_frac_id_df, curr_frac_filtered_id_df,
                   match_across_runs_master, indices, pred_median>>

get_current_sample_mzid_indices ==
    /\ IF ~curr_sample_id_df.cols
       THEN /\ last' = Call("get_current_sample_mzid_indices", <<>>, "KeyError")
            /\ UNCHANGED indices
       ELSE /\ indices' = Column(curr_sample_id_df.rows, "file_idx")
            /\ last' = Call("get_current_sample_mzid_indices", <<>>, "none")
    /\ UNCHANGED <<files, master_id_df, curr_sample_id_df, curr_frac_id_df,
                   curr_frac_filtered_id_df, match_across_runs_master, pred_median>>

----------------------------------------------------------------------------
(* get_current_fraction_psms *)

\* sort_values('percolator q-value').drop_duplicates(subset=['concat'])
BestPerKey(rows) == {drop_duplicates(s) : s \in sort_values(rows, "q")}

\* variant: the rows left in q-value order
KeepOrder(rows) == {rows}

\* sort_values(by='scan').reset_index(drop=True)
SortByScan(rows) == sort_values(rows, "scan")

\* assign(pep_id=df.index) on the reset index 0, 1, ...
AssignPepId(rows) ==
    [i \in DOMAIN rows |->
       [sample |-> rows[i].sample, file_idx |-> rows[i].file_idx,
        concat |-> rows[i].concat, scan |-> rows[i].scan, q |-> rows[i].q,
        unique |-> rows[i].unique, pep_id |-> i - 1]]

ResolveFraction(rows, idx) ==
    {AssignPepId(t) : t \in UNION {SortByScan(d) : d \in BestPerKey(Where(rows, "file_idx", idx))}}

\* variant: the filtered list of the previous fraction is dropped first, before
\* idx is checked
get_current_fraction_psms_resetting(idx) ==
    /\ curr_frac_filtered_id_df' = NoFrame
    /\ IF ~curr_sample_id_df.cols
       THEN /\ last' = Call("get_current_fraction_psms", <<idx>>, "KeyError")
            /\ UNCHANGED curr_frac_id_df
       ELSE IF idx \notin Column(curr_sample_id_df.rows, "file_idx")
       THEN /\ last' = Call("get_current_fraction_psms", <<idx>>, "AssertionError")
            /\ UNCHANGED curr_frac_id_df
       ELSE /\ \E out \in ResolveFraction(curr_sample_id_df.rows, idx) :
                   curr_frac_id_df' = Frame(out)
            /\ last' = Call("get_current_fraction_psms", <<idx>>, "none")
    /\ UNCHANGED <<files, master_id_df, curr_sample_id_df,
                   match_across_runs_master, indices, pred_median>>

get_current_fraction_psms(idx) ==
    /\ IF ~curr_sample_id_df.cols
       THEN /\ last' = Call("get_current_fraction_psms", <<idx>>, "KeyError")
            /\ UNCHANGED curr_frac_id_df
       ELSE IF idx \notin Column(curr_sample_id_df.rows, "file_idx")
       THEN /\ last' = Call("get_current_fraction_psms", <<idx>>, "AssertionError")
            /\ UNCHANGED curr_frac_id_df
       ELSE /\ \E out \in ResolveFraction(curr_sample_id_df.rows, idx) :
                   curr_frac_id_df' = Frame(out)
            /\ last' = Call("get_current_fraction_psms", <<idx>>, "none")
    /\ UNCHANGED <<files, master_id_df, curr_sample_id_df, curr_frac_filtered_id_df,
                   match_across_runs_master, indices, pred_median>>

----------------------------------------------------------------------------
(* filter_current_fraction_psms *)

\* df['evidence'] = ev
WithEvidence(rows, ev) ==
    [i \in DOMAIN rows |->
       [sample |-> rows[i].sample, file_idx |-> rows[i].file_idx,
        concat |-> rows[i].concat, scan |-> rows[i].scan, q |-> rows[i].q,
        unique |-> rows[i].unique, pep_id |-> rows[i].pep_id, evidence |-> ev]]

\* match_across_runs_master[match_across_runs_master.file_idx == idx]
MatchCandidates(master, idx) == SelectSeq(master, LAMBDA x : x.file_idx2 = 2 * idx)

\* variant: no upper limit on the q-value of a rescued row
SoftRowsUnbounded(frac, match_candidates, peptide_q) ==
    LET above == SelectSeq(frac, LAMBDA r : r.q >= peptide_q)
    IN  WithEvidence(SelectSeq(above, LAMBDA r : r.concat \in Column(match_candidates, "concat")),
                     "soft")

\* the rows between the two thresholds that are also match candidates
SoftRows(frac, match_candidates, peptide_q) ==
    LET above == SelectSeq(frac, LAMBDA r : r.q >= peptide_q)
        below == SelectSeq(above, LAMBDA r : r.q < soft_threshold_q)
    IN  WithEvidence(SelectSeq(below, LAMBDA r : r.concat \in Column(match_candidates, "concat")),
                     "soft")

\* variant: every match candidate, whether or not the fraction already holds it
MarCandidatesAll(match_candidates, filtered) ==
    [i \in DOMAIN match_candidates |-> match_candidates[i].concat]

\* [p for p in match_candidates['concat'].tolist() if p not in filtered['concat'].tolist()]
MarCandidates(match_candidates, filtered) ==
    LET keys == [i \in DOMAIN match_candidates |-> match_candidates[i].concat]
    IN  SelectSeq(keys, LAMBDA p : p \notin Column(filtered, "concat"))

\* the keys of a peer sample's confident rows in fraction idx: one set per way
\* the unstable q-value sort may order ties before drop_duplicates
OtherSampleKeys(each_sample, idx, peptide_q, unique_only) ==
    LET other == SelectSeq(master_id_df.rows,
                           LAMBDA r : r.sample = each_sample /\ r.file_idx = idx)
    IN  {Column(filter_df_by_args(d, peptide_q, unique_only), "concat") : d \in BestPerKey(other)}

\* compare_df.scan_y: the current fraction's scans of the keys shared with the peer
TrainingY(filtered, other_keys) ==
    {filtered[i].scan : i \in {j \in DOMAIN filtered : filtered[j].concat \in other_keys}}

SetMin(S) == CHOOSE x \in S : \A y \in S : x <= y

SetMax(S) == CHOOSE x \in S : \A y \in S : x >= y

\* regr.predict for one candidate, in half scans.  A bagged tree ensemble answers
\* with an average of training targets: some value between the least and the
\* greatest y.  When every candidate is found in the peer the merged scan column
\* is an integer array and the assignment truncates the prediction.
Predictions(y, all_found) ==
    IF all_found THEN {2 * v : v \in SetMin(y)..SetMax(y)}
    ELSE (2 * SetMin(y))..(2 * SetMax(y))

\* BaggingRegressor.fit on no rows, and predict on no rows, raise ValueError
PeerRaises(y, found) == y = {} \/ found = {}

\* pred_df.median(axis=1) over the peers that predicted a key: the predictions
\* are in half scans, Median2 of them is the median in quarter scans
Medians4(pred_sets) ==
    LET n == Len(pred_sets)
    IN  {Median2(f) :
           f \in {g \in [1..n -> UNION Range(pred_sets)] : \A i \in 1..n : g[i] \in pred_sets[i]}}

\* mar_out_df.scan.astype(np.int): the cast drops the fraction
AsInt(scan4) == scan4 \div 4

\* mar_out_df: one row per candidate with a prediction; pep_id -(i+1) stands for
\* the string 'matched_i'
MarRows(cands, current_sample, idx, scan_of) ==
    [i \in DOMAIN cands |->
       [sample |-> current_sample, file_idx |-> idx, concat |-> cands[i],
        scan |-> scan_of[cands[i]], q |-> 0, unique |-> TRUE,
        pep_id |-> 0 - i, evidence |-> "match_across_runs"]]

FilterCall(peptide_q, unique_only, use_soft_threshold, match_across_runs, raised) ==
    Call("filter_current_fraction_psms",
         <<peptide_q, unique_only, use_soft_threshold, match_across_runs>>, raised)

\* the match-across-runs block, entered with the q_value and soft rows in place
MatchAcrossRuns(filtered, match_candidates, idx, peptide_q, unique_only, args) ==
    LET mar_candidates == MarCandidates(match_candidates, filtered)
        cand_set == Range(mar_candidates)
    IN  IF filtered = <<>>
        THEN \* self.curr_frac_filtered_id_df['sample'][0] on no rows
             /\ curr_frac_filtered_id_df' = Frame(filtered)
             /\ pred_median' = <<>>
             /\ last' = Call("filter_current_fraction_psms", args, "KeyError")
        ELSE
          LET current_sample == filtered[1].sample
              peers == Column(master_id_df.rows, "sample") \ {current_sample}
              osk == [p \in peers |-> OtherSampleKeys(p, idx, peptide_q, unique_only)]
          IN  \E other_keys \in {f \in [peers -> UNION {osk[p] : p \in peers}] :
                                   \A p \in peers : f[p] \in osk[p]} :
                IF \E p \in peers : PeerRaises(TrainingY(filtered, other_keys[p]),
                                               cand_set \cap other_keys[p])
                THEN /\ curr_frac_filtered_id_df' = Frame(filtered)
                     /\ pred_median' = <<>>
                     /\ last' = Call("filter_current_fraction_psms", args, "ValueError")
                ELSE
                  LET found == {k \in cand_set : \E p \in peers : k \in other_keys[p]}
                      kept == SelectSeq(mar_candidates, LAMBDA k : k \in found)
                      pred_sets == [p \in peers |->
                                      Predictions(TrainingY(filtered, other_keys[p]),
                                                  cand_set \subseteq other_keys[p])]
                      medians == [k \in found |->
                                    LET ps == SelectSeq(samples,
                                                        LAMBDA s : s \in peers /\ k \in other_keys[s])
                                    IN  Medians4([i \in DOMAIN ps |-> pred_sets[ps[i]]])]
                  IN  \E median \in {f \in [found -> UNION {medians[k] : k \in found}] :
                                       \A k \in found : f[k] \in medians[k]} :
                        /\ pred_median' = median
                        /\ curr_frac_filtered_id_df' =
                             Frame(filtered \o MarRows(kept, current_sample,
                                                       filtered[1].file_idx,
                                                       [k \in found |-> AsInt(median[k])]))
                        /\ last' = Call("filter_current_fraction_psms", args, "none")

\* what the call assigns: self.curr_frac_filtered_id_df (and its local pred_df)
FilterAssigns(peptide_q, unique_only, use_soft_threshold, match_across_runs) ==
    LET call(raised) == FilterCall(peptide_q, unique_only, use_soft_threshold,
                                   match_across_runs, raised)
    IN
    IF ~curr_frac_id_df.cols
       THEN \* filter_df_by_args swallows the KeyError of the q-value column only
            IF unique_only
            THEN /\ last' = call("KeyError")
                 /\ pred_median' = <<>>
                 /\ UNCHANGED curr_frac_filtered_id_df
            ELSE /\ curr_frac_filtered_id_df' = Frame(<<>>)
                 /\ pred_median' = <<>>
                 /\ last' = call("KeyError")
       ELSE
         LET q_rows == WithEvidence(filter_df_by_args(curr_frac_id_df.rows,
                                                      peptide_q, unique_only), "q_value")
             idx == curr_frac_id_df.rows[1].file_idx
         IN  IF idx \notin Column(curr_sample_id_df.rows, "file_idx")
             THEN /\ curr_frac_filtered_id_df' = Frame(q_rows)
                  /\ pred_median' = <<>>
                  /\ last' = call("AssertionError")
             ELSE IF ~match_across_runs_master.cols
             THEN /\ curr_frac_filtered_id_df' = Frame(q_rows)
                  /\ pred_median' = <<>>
                  /\ last' = call("AttributeError")
             ELSE
               LET match_candidates == MatchCandidates(match_across_runs_master.rows, idx)
                   filtered == IF use_soft_threshold
                               THEN q_rows \o SoftRows(curr_frac_id_df.rows,
                                                       match_candidates, peptide_q)
                               ELSE q_rows
               IN  IF match_across_runs
                   THEN MatchAcrossRuns(filtered, match_candidates, idx,
                                        peptide_q, unique_only,
                                        <<peptide_q, unique_only, use_soft_threshold,
                                          match_across_runs>>)
                   ELSE /\ curr_frac_filtered_id_df' = Frame(filtered)
                        /\ pred_median' = <<>>
                        /\ last' = call("none")

\* a filter that narrows the master list to the current fraction in place,
\* instead of into the local match_candidates
filter_narrowing_master(peptide_q, unique_only, use_soft_threshold, match_across_runs) ==
    /\ FilterAssigns(peptide_q, unique_only, use_soft_threshold, match_across_runs)
    /\ match_across_runs_master' =
          IF curr_frac_id_df.cols /\ match_across_runs_master.cols
          THEN Frame(MatchCandidates(match_across_runs_master.rows,
                                     curr_frac_id_df.rows[1].file_idx))
          ELSE match_across_runs_master
    /\ UNCHANGED <<files, master_id_df, curr_sample_id_df, curr_frac_id_df, indices>>

filter_current_fraction_psms(peptide_q, unique_only, use_soft_threshold, match_across_runs) ==
    /\ FilterAssigns(peptide_q, unique_only, use_soft_threshold, match_across_runs)
    /\ UNCHANGED <<files, master_id_df, curr_sample_id_df, curr_frac_id_df,
                   match_across_runs_master, indices>>

----------------------------------------------------------------------------
(* The object under any sequence of calls, the arguments drawn from given sets *)

AllArgs == [peptide_q |-> PeptideQArgs, unique_only |-> BOOLEAN,
            min_fraction |-> MinFractionArgs, use_soft_threshold |-> BOOLEAN,
            match_across_runs |-> BOOLEAN]

Load == read_all_project_psms

BuildMaster(a) ==
    \E peptide_q \in a.peptide_q, unique_only \in a.unique_only,
       min_fraction \in a.min_fraction :
          make_master_match_list(peptide_q, unique_only, min_fraction)

SelectSample == \E current_sample \in SampleArgs : get_current_sample_psms(current_sample)

ListIndices == get_current_sample_mzid_indices

SelectFraction == \E idx \in IdxArgs : get_current_fraction_psms(idx)

FilterFraction(a) ==
    \E peptide_q \in a.peptide_q, unique_only \in a.unique_only,
       use_soft_threshold \in a.use_soft_threshold,
       match_across_runs \in a.match_across_runs :
          filter_current_fraction_psms(peptide_q, unique_only, use_soft_threshold,
                                       match_across_runs)

NextOver(a) ==
    \/ Load
    \/ BuildMaster(a)
    \/ SelectSample
    \/ ListIndices
    \/ SelectFraction
    \/ FilterFraction(a)

\* the tables of SmallProjects hold unique rows only and three samples: one
\* value of unique_only and two quorums tell all there is to tell
SmallArgs == [peptide_q |-> PeptideQArgs, unique_only |-> {FALSE},
              min_fraction |-> {1, 2}, use_soft_threshold |-> BOOLEAN,
              match_across_runs |-> BOOLEAN]

Next == NextOver(SmallArgs)

Spec == Init /\ [][Next]_vars

\* the resolver alone: load, select a sample, resolve a fraction
NextResolver ==
    \/ Load
    \/ SelectSample
    \/ SelectFraction

SpecResolver == InitResolver /\ [][NextResolver]_vars

\* one run of the documented call order over one sample and one fraction: load,
\* build the master list, select the sample, list its fractions, resolve one of
\* them, filter it
Pipeline(a) ==
    \/ last.op = "__init__" /\ Load
    \/ last.op = "read_all_project_psms" /\ BuildMaster(a)
    \/ last.op = "make_master_match_list" /\ last.raised = "none" /\ SelectSample
    \/ last.op = "get_current_sample_psms" /\ last.raised = "none" /\ ListIndices
    \/ last.op = "get_current_sample_mzid_indices" /\ SelectFraction
    \/ last.op = "get_current_fraction_psms" /\ last.raised = "none" /\ FilterFraction(a)

NextPipeline == Pipeline(AllArgs)

\* the master list alone: load, build
NextMaster ==
    \/ Load
    \/ BuildMaster(AllArgs)

SpecMaster == InitMaster /\ [][NextMaster]_vars

SpecPipeline == InitPipeline /\ [][NextPipeline]_vars

----------------------------------------------------------------------------
(* Properties *)

FilteredRows == curr_frac_filtered_id_df.rows

Filtered(ev) == {i \in DOMAIN FilteredRows : FilteredRows[i].evidence \in ev}

FilterCalled == last.op = "filter_current_fraction_psms"

FilterReturned == FilterCalled /\ last.raised = "none"

\* the keys of the q_value and soft rows of the filtered fraction
IdentifiedKeys == {FilteredRows[i].concat : i \in Filtered({"q_value", "soft"})}

\* C1: MAR disjointness.  When filter_current_fraction_psms has returned with
\* match_across_runs on, no key of a 'match_across_runs' row of the filtered
\* fraction is the key of a 'q_value' or 'soft' row of it.
C1_MarDisjoint ==
    (FilterReturned /\ last.args[4])
      => \A i \in Filtered({"match_across_runs"}) : FilteredRows[i].concat \notin IdentifiedKeys

C1_Witness ==
    /\ FilterReturned /\ last.args[4]
    /\ Filtered({"match_across_runs"}) # {}
    /\ Filtered({"q_value"}) # {}
    /\ Filtered({"soft"}) # {}

FracRows == curr_frac_id_df.rows

PepIdIsPosition == \A i \in DOMAIN FracRows : FracRows[i].pep_id = i - 1

\* C3 as stated: the resolved fraction is strictly ascending by scan, and pep_id
\* is the 0-based position.
C3_StrictlyAscending ==
    curr_frac_id_df.cols
      => /\ \A i \in 1..(Len(FracRows) - 1) : FracRows[i].scan < FracRows[i + 1].scan
         /\ PepIdIsPosition

\* C3 amended: the resolved fraction is ascending by scan, rows of different keys
\* with the same scan staying side by side, and pep_id is the 0-based position.
C3_Ascending ==
    curr_frac_id_df.cols
      => /\ \A i \in 1..(Len(FracRows) - 1) : FracRows[i].scan <= FracRows[i + 1].scan
         /\ PepIdIsPosition

C3_Witness ==
    /\ last.op = "get_current_fraction_psms" /\ last.raised = "none"
    /\ \E i \in 1..(Len(FracRows) - 1) :
          /\ FracRows[i].scan = FracRows[i + 1].scan
          /\ FracRows[i].concat # FracRows[i + 1].concat
    /\ \E i, j \in DOMAIN curr_sample_id_df.rows :
          i < j /\ curr_sample_id_df.rows[i].scan > curr_sample_id_df.rows[j].scan

\* C4: dedup correctness.  After get_current_fraction_psms(idx) every key of the
\* fraction has exactly one row, and it is the first row in input order among
\* the key's rows of lowest q-value.
C4_FirstOfLowestQ ==
    (last.op = "get_current_fraction_psms" /\ last.raised = "none")
      => LET input == Where(curr_sample_id_df.rows, "file_idx", last.args[1])
             best(k) == CHOOSE i \in DOMAIN input :
                          /\ input[i].concat = k
                          /\ \A j \in DOMAIN input :
                                (input[j].concat = k)
                                  => \/ input[i].q < input[j].q
                                     \/ (input[i].q = input[j].q /\ i <= j)
         IN  \A k \in Column(input, "concat") :
               /\ Cardinality({i \in DOMAIN FracRows : FracRows[i].concat = k}) = 1
               /\ \A i \in DOMAIN FracRows :
                     (FracRows[i].concat = k)
                       => /\ FracRows[i].scan = input[best(k)].scan
                          /\ FracRows[i].q = input[best(k)].q

\* round to the nearest integer, a half going up (the argument in quarters)
Nearest(scan4) == (scan4 + 2) \div 4

\* C5: MAR aggregation rounding.  The scan of a synthesized row is the median
\* of the peers' predictions rounded to the nearest integer.
C5_NearestMedian ==
    (FilterReturned /\ last.args[4])
      => \A i \in Filtered({"match_across_runs"}) :
           FilteredRows[i].scan = Nearest(pred_median[FilteredRows[i].concat])

\* the peers of the current fraction's sample, and the keys a peer holds
\* confidently in the current fraction under the arguments of the last call
Peers == Column(master_id_df.rows, "sample") \ {curr_frac_id_df.rows[1].sample}

PeerHolds(p, k) ==
    \E ks \in OtherSampleKeys(p, curr_frac_id_df.rows[1].file_idx, last.args[1], last.args[2]) :
       k \in ks

\* C6: a degenerate peer is skipped.  When match across runs meets a peer that
\* shares no key with the identified rows of the fraction, the call still
\* returns normally.
C6_DegeneratePeerSkipped ==
    (/\ FilterCalled /\ last.args[4]
     /\ curr_frac_id_df.cols /\ match_across_runs_master.cols
     /\ IdentifiedKeys # {}
     /\ \E p \in Peers : \A k \in IdentifiedKeys : ~PeerHolds(p, k))
      => last.raised = "none"

\* the match candidates of the current fraction that are not identified in it
\* and that some peer holds
ExpectedMarKeys ==
    {k \in Column(MatchCandidates(match_across_runs_master.rows,
                                  curr_frac_id_df.rows[1].file_idx), "concat") \ IdentifiedKeys :
       \E p \in Peers : PeerHolds(p, k)}

\* C7: MAR output set.  A call with match_across_runs on returns normally, and
\* the filtered fraction then holds exactly one 'match_across_runs' row for each
\* match candidate some peer holds, and none for any other key.
C7_MarOutputSet ==
    (FilterCalled /\ last.args[4] /\ curr_frac_id_df.cols /\ match_across_runs_master.cols)
      => /\ last.raised = "none"
         /\ \A k \in ExpectedMarKeys :
               Cardinality({i \in Filtered({"match_across_runs"}) :
                              FilteredRows[i].concat = k}) = 1
         /\ \A i \in Filtered({"match_across_runs"}) :
               FilteredRows[i].concat \in ExpectedMarKeys

\* the number of samples with a row of key k that passes the confidence filter
NumSamples(k, peptide_q, unique_only) ==
    Cardinality({s \in Range(samples) :
                   \E i \in DOMAIN master_id_df.rows :
                      LET r == master_id_df.rows[i]
                      IN  /\ r.sample = s /\ r.concat = k /\ r.q < peptide_q
                          /\ (unique_only => r.unique)})

\* C8: quorum retention.  After make_master_match_list(peptide_q, unique_only,
\* min_fraction) the master list holds exactly the keys of the record store
\* whose number of samples is at least min_fraction * len(samples) (min_fraction
\* in quarters), each once and with that number of samples.
C8_Quorum ==
    (last.op = "make_master_match_list" /\ last.raised = "none")
      => LET m == match_across_runs_master.rows
             n(k) == NumSamples(k, last.args[1], last.args[2])
         IN  /\ Column(m, "concat") =
                  {k \in Column(master_id_df.rows, "concat") :
                     4 * n(k) >= Len(samples) * last.args[3]}
             /\ \A i, j \in DOMAIN m : (m[i].concat = m[j].concat) => (i = j)
             /\ \A i \in DOMAIN m : m[i].num_samples = n(m[i].concat)

C8_Witness ==
    /\ last.op = "make_master_match_list" /\ last.raised = "none"
    /\ match_across_runs_master.rows # <<>>
    /\ \E k \in Column(master_id_df.rows, "concat") :
          /\ k \notin Column(match_across_runs_master.rows, "concat")
          /\ NumSamples(k, last.args[1], last.args[2]) > 0
    /\ \E i \in DOMAIN match_across_runs_master.rows :
          4 * match_across_runs_master.rows[i].num_samples = Len(samples) * last.args[3]

DerivedUnchanged ==
    /\ match_across_runs_master' = match_across_runs_master
    /\ curr_sample_id_df' = curr_sample_id_df
    /\ curr_frac_id_df' = curr_frac_id_df
    /\ curr_frac_filtered_id_df' = curr_frac_filtered_id_df

\* C9: a failed precondition raises and changes nothing.  make_master_match_list
\* on an empty record store, get_current_sample_psms with a sample the store does
\* not hold and get_current_fraction_psms with a file_idx the current sample does
\* not hold each raise, leaving the store and the four derived frames as they were.
C9_FailedPreconditionChangesNothing ==
    [][ /\ (last'.op = "make_master_match_list" /\ master_id_df.rows = <<>>)
           => (last'.raised # "none" /\ master_id_df' = master_id_df /\ DerivedUnchanged)
        /\ (/\ last'.op = "get_current_sample_psms"
            /\ last'.args[1] \notin Column(master_id_df.rows, "sample"))
           => (last'.raised # "none" /\ master_id_df' = master_id_df /\ DerivedUnchanged)
        /\ (/\ last'.op = "get_current_fraction_psms"
            /\ last'.args[1] \notin Column(curr_sample_id_df.rows, "file_idx"))
           => (last'.raised # "none" /\ master_id_df' = master_id_df /\ DerivedUnchanged)
      ]_vars

C9_Witness ==
    /\ last.op = "get_current_fraction_psms" /\ last.raised = "AssertionError"
    /\ curr_frac_id_df.cols
    /\ curr_frac_filtered_id_df.rows # <<>>
    /\ match_across_runs_master.rows # <<>>

\* C10: read-only stores.  get_current_sample_psms,
\* get_current_sample_mzid_indices, get_current_fraction_psms and
\* filter_current_fraction_psms change neither the record store nor the master
\* list, whatever their arguments and outcome.
C10_StoresReadOnly ==
    [][ (last'.op \in {"get_current_sample_psms", "get_current_sample_mzid_indices",
                       "get_current_fraction_psms", "filter_current_fraction_psms"})
          => /\ master_id_df' = master_id_df
             /\ match_across_runs_master' = match_across_runs_master
      ]_vars

C10_Witness ==
    /\ FilterReturned /\ last.args[3] /\ last.args[4]
    /\ Filtered({"match_across_runs"}) # {}
    /\ Len(match_across_runs_master.rows) > 1

\* C11: no stale fraction across sample switches.  Whenever
\* filter_current_fraction_psms has returned normally, every row of the filtered
\* fraction (q_value, soft and match_across_runs alike) carries the sample held
\* by curr_sample_id_df, the one most recently selected by
\* get_current_sample_psms.
C11_NoStaleFraction ==
    FilterReturned =>
       \A i \in DOMAIN FilteredRows :
          FilteredRows[i].sample = curr_sample_id_df.rows[1].sample

====
